---- MODULE Spec2Model ----
(***************************************************************************)
(* A model of the per-tenant DuckDB store service                          *)
(* (app/services/duckdb_service.py), of the chat orchestrator on top of it *)
(* (app/services/chat_service.py) and of the handlers that call them       *)
(* (app/api/routes/chat.py, app/main.py).                                  *)
(*                                                                         *)
(* Scheduling: every handler is an "async def", so FastAPI runs it on the  *)
(* single event-loop thread; the code between two awaits runs atomically.  *)
(* The only awaits are the two http_client.post calls.  One action of the  *)
(* model is one such atomic stretch of a handler.                          *)
(***************************************************************************)
EXTENDS Integers, Sequences, FiniteSets, TLC

(***************************************************************************)
(* JSON values as Python sees them after response.json().  A dict is a     *)
(* sequence of <<key, value>> pairs with distinct keys, in insertion       *)
(* order (Python dicts keep it, and the column order of a table follows    *)
(* from it).                                                               *)
(***************************************************************************)
Null == [t |-> "null"]
Num(n) == [t |-> "num", n |-> n]
Str(s) == [t |-> "str", s |-> s]
Lst(elems) == [t |-> "list", elems |-> elems]
Obj(items) == [t |-> "obj", items |-> items]
\* A pandas DataFrame handed to create_table_from_response directly.
Frame(cols, rows) == [t |-> "frame", cols |-> cols, rows |-> rows]

IsDict(v) == v.t = "obj"
IsList(v) == v.t = "list"
\* Python truthiness of a container: it is non-empty.
Truthy(v) ==
  CASE v.t = "obj" -> Len(v.items) > 0
    [] v.t = "list" -> Len(v.elems) > 0
    [] v.t = "null" -> FALSE
    [] v.t = "num" -> v.n /= 0
    [] v.t = "str" -> v.s /= ""
    [] OTHER -> TRUE

DictKeys(items) == [i \in 1..Len(items) |-> items[i][1]]
HasKey(items, k) == \E i \in 1..Len(items) : items[i][1] = k
DictGet(items, k) == items[CHOOSE i \in 1..Len(items) : items[i][1] = k][2]
\* d[k] = v on a Python dict: an existing key keeps its place, a new one is
\* appended.
DictSet(items, k, v) ==
  IF HasKey(items, k)
    THEN [i \in 1..Len(items) |-> IF items[i][1] = k THEN <<k, v>> ELSE items[i]]
    ELSE Append(items, <<k, v>>)

(***************************************************************************)
(* json.dumps with its default separators (", " and ": ").                 *)
(***************************************************************************)
RECURSIVE Dumps(_)
RECURSIVE DumpsElems(_, _)
RECURSIVE DumpsItems(_, _)
DumpsElems(elems, i) ==
  IF i > Len(elems) THEN ""
  ELSE (IF i > 1 THEN ", " ELSE "") \o Dumps(elems[i]) \o DumpsElems(elems, i + 1)
DumpsItems(items, i) ==
  IF i > Len(items) THEN ""
  ELSE (IF i > 1 THEN ", " ELSE "") \o "\"" \o items[i][1] \o "\": "
         \o Dumps(items[i][2]) \o DumpsItems(items, i + 1)
Dumps(v) ==
  CASE v.t = "null" -> "null"
    [] v.t = "num" -> ToString(v.n)
    [] v.t = "str" -> "\"" \o v.s \o "\""
    [] v.t = "list" -> "[" \o DumpsElems(v.elems, 1) \o "]"
    [] v.t = "obj" -> "{" \o DumpsItems(v.items, 1) \o "}"

(***************************************************************************)
(* _flatten_nested_objects, loop by loop.                                  *)
(***************************************************************************)
\* A faulty child value: an empty container is serialized like any other.
NestedValueAlwaysDumps(nested_value) ==
  IF ~(nested_value.t = "obj" \/ nested_value.t = "list")
    THEN nested_value
    ELSE [t |-> "str", s |-> Dumps(nested_value)]

\* The value stored for one child of a nested dict (lines 79-85).
NestedValue(nested_value) ==
  IF ~(IsDict(nested_value) \/ IsList(nested_value))
    THEN nested_value
    ELSE IF Truthy(nested_value) THEN Str(Dumps(nested_value)) ELSE Null

\* The inner loop over value.items() (lines 78-85), from child j on.
RECURSIVE FlattenNested(_, _, _, _)
FlattenNested(flat_record, key, items, j) ==
  IF j > Len(items) THEN flat_record
  ELSE FlattenNested(
         DictSet(flat_record, key \o "_" \o items[j][1], NestedValue(items[j][2])),
         key, items, j + 1)

\* A faulty iteration: a list of dicts is copied like any other list.
FlattenFieldKeepsLists(flat_record, key, value) ==
  IF IsDict(value) /\ Truthy(value)
    THEN FlattenNested(flat_record, key, value.items, 1)
    ELSE DictSet(flat_record, key, value)

\* A faulty iteration: a field whose value is None is left out.
FlattenFieldDropsNull(flat_record, key, value) ==
  IF value = Null THEN flat_record
  ELSE IF IsDict(value) /\ Truthy(value)
    THEN FlattenNested(flat_record, key, value.items, 1)
    ELSE IF IsList(value) /\ Truthy(value) /\ IsDict(value.elems[1])
      THEN DictSet(flat_record, key, Str(Dumps(value)))
      ELSE DictSet(flat_record, key, value)

\* One iteration of the loop over record.items() (lines 75-90).
FlattenField(flat_record, key, value) ==
  IF IsDict(value) /\ Truthy(value)
    THEN FlattenNested(flat_record, key, value.items, 1)
    ELSE IF IsList(value) /\ Truthy(value) /\ IsDict(value.elems[1])
      THEN DictSet(flat_record, key, Str(Dumps(value)))
      ELSE DictSet(flat_record, key, value)

RECURSIVE FlattenFrom(_, _, _)
FlattenFrom(flat_record, items, i) ==
  IF i > Len(items) THEN flat_record
  ELSE FlattenFrom(FlattenField(flat_record, items[i][1], items[i][2]), items, i + 1)

\* The body of the outer loop for one record (lines 73-92): its flat_record.
FlattenRecord(record) == Obj(FlattenFrom(<<>>, record.items, 1))

\* A faulty outer loop: each flat record is put in front of the earlier ones.
RECURSIVE FlattenLoopPrepends(_, _, _)
FlattenLoopPrepends(flattened, records, i) ==
  IF i > Len(records) THEN flattened
  ELSE FlattenLoopPrepends(<<FlattenRecord(records[i])>> \o flattened, records, i + 1)

\* The outer loop (lines 70-94): flattened grows by one record per iteration.
RECURSIVE FlattenLoop(_, _, _)
FlattenLoop(flattened, records, i) ==
  IF i > Len(records) THEN flattened
  ELSE FlattenLoop(Append(flattened, FlattenRecord(records[i])), records, i + 1)

FlattenNestedObjects(records) == FlattenLoop(<<>>, records, 1)

(***************************************************************************)
(* The embedded engine.  A database lives at a db_path and holds the main  *)
(* schema: the tables, and the rows of _metadata when that table exists.   *)
(* A connection holds the views conn.register created (temporary views,    *)
(* private to the connection, found before the main schema by name).       *)
(***************************************************************************)
TableNames == {"t1"}
\* The rpc_name of a ChatInitRequest when the request gives none.
DefaultRpcName == "fn_get_assets"
MetadataTable == "_metadata"

NoTable == [present |-> FALSE]
Table(cols, rows) == [present |-> TRUE, cols |-> cols, rows |-> rows]
NoRow == [present |-> FALSE]
MetaRow(rpc_name, row_count) ==
  [present |-> TRUE, rpc_name |-> rpc_name, row_count |-> row_count]

EmptyDatabase ==
  [hasMeta |-> FALSE,
   tables |-> [n \in TableNames |-> NoTable],
   meta |-> [n \in TableNames |-> NoRow]]
NoViews == [n \in TableNames |-> NoTable]

\* The engine calls of create_table_from_response that can raise, and the
\* ways one call of it can go: no call raises, one does, or all do (as on
\* a closed connection).
EngineCalls == {"drop", "register", "create", "meta"}
EngineFailures == {{}, EngineCalls} \cup {{c} : c \in EngineCalls}

(***************************************************************************)
(* pd.DataFrame(flattened_records): the columns are the keys in order of   *)
(* first appearance, one row per record.                                   *)
(***************************************************************************)
RECURSIVE AddKeys(_, _, _)
AddKeys(cols, keys, i) ==
  IF i > Len(keys) THEN cols
  ELSE AddKeys(IF \E c \in 1..Len(cols) : cols[c] = keys[i]
                 THEN cols ELSE Append(cols, keys[i]),
               keys, i + 1)
RECURSIVE ColumnsFrom(_, _, _)
ColumnsFrom(cols, records, i) ==
  IF i > Len(records) THEN cols
  ELSE ColumnsFrom(AddKeys(cols, DictKeys(records[i].items), 1), records, i + 1)
DataFrame(records) == Frame(ColumnsFrom(<<>>, records, 1), records)

(***************************************************************************)
(* create_table_from_response.                                             *)
(***************************************************************************)
\* A faulty normalization: a dict is one record even when it wraps a list.
NormalizeNeverUnwraps(data) ==
  IF IsList(data) THEN [kind |-> "records", records |-> data.elems]
  ELSE IF IsDict(data) THEN [kind |-> "records", records |-> <<data>>]
  ELSE IF data.t = "frame" THEN [kind |-> "frame", records |-> <<>>]
  ELSE [kind |-> "reject", records |-> <<>>]

\* Lines 111-133: the records to ingest, the DataFrame branch, or the
\* rejection of line 133.
Normalize(data) ==
  IF IsList(data) THEN [kind |-> "records", records |-> data.elems]
  ELSE IF IsDict(data)
    THEN IF HasKey(data.items, "data") /\ IsList(DictGet(data.items, "data"))
           THEN [kind |-> "records", records |-> DictGet(data.items, "data").elems]
           ELSE [kind |-> "records", records |-> <<data>>]
  ELSE IF data.t = "frame" THEN [kind |-> "frame", records |-> <<>>]
  ELSE [kind |-> "reject", records |-> <<>>]

\* The outcome of one call: the database and the connection's views after
\* it, the value returned, and the return statement taken.
Outcome(db, views, ret, exit) ==
  [db |-> db, views |-> views, ret |-> ret, exit |-> exit]

\* DROP TABLE IF EXISTS inside its own try/except: a failure is swallowed
\* and leaves the table.
DropTable(db, table_name, fail) ==
  IF "drop" \in fail THEN db
  ELSE [db EXCEPT !.tables[table_name] = NoTable]

\* Lines 156-165: the row count of the frame goes to _metadata under
\* rpc_name = table_name; a failure (or a missing _metadata) is swallowed.
UpdateMetadata(db, table_name, row_count, fail) ==
  IF "meta" \in fail \/ ~db.hasMeta THEN db
  ELSE [db EXCEPT !.meta[table_name] = MetaRow(table_name, row_count)]

\* A faulty materialization: the rows are added to the table that exists.
MaterializeAppends(db, views, table_name, df, fail) ==
  LET old == db.tables[table_name]
      rows == IF old.present THEN old.rows \o df.rows ELSE df.rows
      registered == [views EXCEPT ![table_name] = Table(df.cols, rows)]
  IN IF "register" \in fail \/ Len(df.cols) = 0
       THEN [db |-> db, views |-> views, raised |-> TRUE]
     ELSE IF "create" \in fail
       THEN [db |-> db, views |-> registered, raised |-> TRUE]
     ELSE [db |-> [db EXCEPT !.tables[table_name] = Table(df.cols, rows)],
           views |-> registered, raised |-> FALSE]

\* Drop, register, create (lines 124-131 and 144-154).  The result is the
\* state where the first raising call left it; "raised" says whether one
\* did.  Registering a frame without columns raises, and so does creating
\* a table that still exists.
Materialize(db, views, table_name, df, fail) ==
  LET dropped == DropTable(db, table_name, fail)
      registered == [views EXCEPT ![table_name] = Table(df.cols, df.rows)]
  IN IF "register" \in fail \/ Len(df.cols) = 0
       THEN [db |-> dropped, views |-> views, raised |-> TRUE]
     ELSE IF "create" \in fail \/ dropped.tables[table_name].present
       THEN [db |-> dropped, views |-> registered, raised |-> TRUE]
     ELSE [db |-> [dropped EXCEPT !.tables[table_name] = Table(df.cols, df.rows)],
           views |-> registered, raised |-> FALSE]

CreateTableFromResponse(db, views, table_name, data, fail) ==
  LET norm == Normalize(data) IN
  IF norm.kind = "reject" THEN Outcome(db, views, FALSE, "unsupported")
  ELSE IF norm.kind = "frame"
    THEN LET m == Materialize(db, views, table_name, data, fail)
         IN IF m.raised THEN Outcome(m.db, m.views, FALSE, "error")
            ELSE Outcome(m.db, m.views, TRUE, "frame")
  ELSE IF Len(norm.records) = 0 THEN Outcome(db, views, FALSE, "empty")
  \* record.items() raises on a record that is not a dict (line 75).
  ELSE IF \E i \in 1..Len(norm.records) : ~IsDict(norm.records[i])
    THEN Outcome(db, views, FALSE, "error")
  ELSE LET df == DataFrame(FlattenNestedObjects(norm.records))
           m == Materialize(db, views, table_name, df, fail)
       IN IF m.raised THEN Outcome(m.db, m.views, FALSE, "error")
          ELSE Outcome(UpdateMetadata(m.db, table_name, Len(df.rows), fail),
                       m.views, TRUE, "ok")

(***************************************************************************)
(* Reading through a connection.  A name is looked up among the            *)
(* connection's registered views first, then in the main schema; every     *)
(* call on a closed connection raises.                                     *)
(***************************************************************************)
Resolve(db, inst, table_name) ==
  IF ~inst.open THEN NoTable
  ELSE IF inst.views[table_name].present THEN inst.views[table_name]
  ELSE db.tables[table_name]

\* The rows of _metadata as the engine returns them.
RECURSIVE MetaRows(_, _)
MetaRows(db, names) ==
  IF names = {} THEN <<>>
  ELSE LET n == CHOOSE x \in names : TRUE
       IN (IF db.meta[n].present
             THEN <<Obj(<<<<"table_name", Str(n)>>, <<"rpc_name", Str(db.meta[n].rpc_name)>>,
                          <<"row_count", Num(db.meta[n].row_count)>>>>)>>
             ELSE <<>>) \o MetaRows(db, names \ {n})
MetadataColumns == <<"table_name", "rpc_name", "created_at", "row_count">>

\* The relation a name stands for on a connection: a view registered on
\* it, a table of the main schema, _metadata, or nothing.
Relation(db, inst, table_name) ==
  IF ~inst.open THEN NoTable
  ELSE IF table_name \in TableNames THEN Resolve(db, inst, table_name)
  ELSE IF table_name = MetadataTable /\ db.hasMeta
    THEN Table(MetadataColumns, MetaRows(db, TableNames))
  ELSE NoTable

\* get_table_schema: the column names in the engine's order, or None (an
\* empty sequence here: chat tests "not schema").
GetTableSchema(db, inst, table_name) ==
  LET tbl == Relation(db, inst, table_name)
  IN IF tbl.present THEN tbl.cols ELSE <<>>

\* get_table_info: None (-1 here) or the row count its text reports.
GetTableInfo(db, inst, table_name) ==
  LET tbl == Relation(db, inst, table_name)
  IN IF tbl.present THEN Len(tbl.rows) ELSE -1

\* list_tables: the names of information_schema.tables in schema main,
\* _metadata among them; [] when the call raises.
RECURSIVE NamesIn(_, _)
NamesIn(db, names) ==
  IF names = {} THEN <<>>
  ELSE LET n == CHOOSE x \in names : TRUE
       IN (IF db.tables[n].present THEN <<n>> ELSE <<>>) \o NamesIn(db, names \ {n})
ListTables(db, inst) ==
  IF ~inst.open THEN <<>>
  ELSE (IF db.hasMeta THEN <<MetadataTable>> ELSE <<>>) \o NamesIn(db, TableNames)

(***************************************************************************)
(* The tenants, and where DuckDBService.__init__ puts each one's database. *)
(***************************************************************************)
Tenants == {"alice", "bob", "carol"}
MemoryPath == ":memory:"
FilePath == "/data"
BasePaths == {MemoryPath, FilePath}

\* hashlib.sha256(user_id.encode()).hexdigest(), cut to ten digits.  The
\* first eight digits of two digests can agree.
HexDigest(user_id) ==
  CASE user_id = "alice" -> "3f9a12c4e1"
    [] user_id = "bob" -> "3f9a12c407"
    [] user_id = "carol" -> "b01d55e826"
HashPrefixLen == 8

\* Lines 27-35.
DbPath(user_id, db_base_path) ==
  IF db_base_path = MemoryPath
    THEN ":memory:?user=" \o user_id
    ELSE db_base_path \o "/user_"
           \o SubSeq(HexDigest(user_id), 1, HashPrefixLen)
           \o "/data.duckdb"
AllPaths == {DbPath(u, b) : u \in Tenants, b \in BasePaths}

\* How a construction can go: every step works, the CREATE TABLE of
\* _init_metadata_table raises (swallowed there), or makedirs/connect
\* raises (propagated).
ConstructionOutcomes == {"ok", "meta_fails", "raises"}

(***************************************************************************)
(* The registry _user_dbs and the cache _chat_services: Python dicts from  *)
(* user id to object, here to the index of the DuckDBService in            *)
(* "instances" (a ChatService is the db it captured in __init__).          *)
(***************************************************************************)
MaxInFlight == 2

NewInstance(user_id, db_path) ==
  [user_id |-> user_id, db_path |-> db_path, open |-> TRUE, closes |-> 0,
   views |-> NoViews]

DictDel(items, k) ==
  LET idx == CHOOSE i \in 1..Len(items) : items[i][1] = k
  IN [i \in 1..(Len(items) - 1) |-> IF i < idx THEN items[i] ELSE items[i + 1]]

\* DuckDBService.__init__ (lines 23-38) when nothing propagates: the new
\* service, and _metadata created unless that CREATE raised (lines 42-53).
Construct(insts, dbs, base, user_id, how) ==
  LET path == DbPath(user_id, base)
  IN [insts |-> Append(insts, NewInstance(user_id, path)),
      dbs |-> [dbs EXCEPT ![path].hasMeta = IF how = "ok" THEN TRUE ELSE @]]

\* A faulty get_db: no membership test, every call constructs.
GetDbAlwaysConstructs(reg, insts, dbs, base, user_id, how) ==
  IF how = "raises"
    THEN [raised |-> TRUE, reg |-> reg, insts |-> insts, dbs |-> dbs, db |-> 0]
  ELSE LET c == Construct(insts, dbs, base, user_id, how)
       IN [raised |-> FALSE, reg |-> DictSet(reg, user_id, Len(c.insts)),
           insts |-> c.insts, dbs |-> c.dbs, db |-> Len(c.insts)]

\* A faulty get_db: a registry that holds a store hands it to every tenant.
GetDbIgnoresTenant(reg, insts, dbs, base, user_id, how) ==
  IF reg /= <<>>
    THEN [raised |-> FALSE, reg |-> reg, insts |-> insts, dbs |-> dbs,
          db |-> reg[1][2]]
  ELSE IF how = "raises"
    THEN [raised |-> TRUE, reg |-> reg, insts |-> insts, dbs |-> dbs, db |-> 0]
  ELSE LET c == Construct(insts, dbs, base, user_id, how)
       IN [raised |-> FALSE, reg |-> DictSet(reg, user_id, Len(c.insts)),
           insts |-> c.insts, dbs |-> c.dbs, db |-> Len(c.insts)]

\* get_db (lines 337-354).
GetDb(reg, insts, dbs, base, user_id, how) ==
  IF HasKey(reg, user_id)
    THEN [raised |-> FALSE, reg |-> reg, insts |-> insts, dbs |-> dbs,
          db |-> DictGet(reg, user_id)]
  ELSE IF how = "raises"
    THEN [raised |-> TRUE, reg |-> reg, insts |-> insts, dbs |-> dbs, db |-> 0]
  ELSE LET c == Construct(insts, dbs, base, user_id, how)
       IN [raised |-> FALSE, reg |-> DictSet(reg, user_id, Len(c.insts)),
           insts |-> c.insts, dbs |-> c.dbs, db |-> Len(c.insts)]

\* get_chat_service (lines 260-276) with ChatService.__init__ (lines 18-19).
\* svcs[u] is 0 while _chat_services has no entry for u.
GetChatService(svcs, reg, insts, dbs, base, user_id, how) ==
  IF svcs[user_id] /= 0
    THEN [raised |-> FALSE, svcs |-> svcs, reg |-> reg, insts |-> insts,
          dbs |-> dbs, db |-> svcs[user_id]]
  ELSE LET g == GetDb(reg, insts, dbs, base, user_id, how)
       IN [raised |-> g.raised,
           svcs |-> IF g.raised THEN svcs ELSE [svcs EXCEPT ![user_id] = g.db],
           reg |-> g.reg, insts |-> g.insts, dbs |-> g.dbs, db |-> g.db]

\* DuckDBService.close (lines 328-331) when conn.close() returns.  A named
\* in-memory database goes away with its last open connection.
Close(insts, dbs, base, id) ==
  LET path == insts[id].db_path
      others == \E j \in 1..Len(insts) :
                  j /= id /\ insts[j].open /\ insts[j].db_path = path
  IN [insts |-> [insts EXCEPT ![id].open = FALSE, ![id].closes = @ + 1],
      dbs |-> IF base = MemoryPath /\ ~others
                THEN [dbs EXCEPT ![path] = EmptyDatabase] ELSE dbs]

\* A faulty close_db: the entry stays in the registry.
CloseDbKeepsEntry(reg, insts, dbs, base, user_id, fails) ==
  IF ~HasKey(reg, user_id) \/ fails
    THEN [raised |-> HasKey(reg, user_id) /\ fails,
          reg |-> reg, insts |-> insts, dbs |-> dbs]
  ELSE LET c == Close(insts, dbs, base, DictGet(reg, user_id))
       IN [raised |-> FALSE, reg |-> reg, insts |-> c.insts, dbs |-> c.dbs]

\* close_db (lines 356-367): "fails" says that close() raises, which skips
\* the del.
CloseDb(reg, insts, dbs, base, user_id, fails) ==
  IF ~HasKey(reg, user_id) \/ fails
    THEN [raised |-> HasKey(reg, user_id) /\ fails,
          reg |-> reg, insts |-> insts, dbs |-> dbs]
  ELSE LET c == Close(insts, dbs, base, DictGet(reg, user_id))
       IN [raised |-> FALSE, reg |-> DictDel(reg, user_id),
           insts |-> c.insts, dbs |-> c.dbs]

\* The loop of close_all_dbs (lines 373-374) over list(_user_dbs.keys()),
\* from key i on: "failing" are the users whose close() raises.
RECURSIVE Sweep(_, _, _, _, _, _)
Sweep(reg, insts, dbs, base, failing, i) ==
  IF i > Len(reg) THEN [raised |-> FALSE, insts |-> insts, dbs |-> dbs]
  ELSE IF reg[i][1] \in failing
    THEN [raised |-> TRUE, insts |-> insts, dbs |-> dbs]
  ELSE LET c == Close(insts, dbs, base, reg[i][2])
       IN Sweep(reg, c.insts, c.dbs, base, failing, i + 1)

\* close_all_dbs (lines 369-376): clear() is reached only when no close
\* raised.
CloseAllDbs(reg, insts, dbs, base, failing) ==
  LET w == Sweep(reg, insts, dbs, base, failing, 1)
  IN [raised |-> w.raised, reg |-> IF w.raised THEN reg ELSE <<>>,
      insts |-> w.insts, dbs |-> w.dbs]

(***************************************************************************)
(* What the remote procedure can answer to initialize_from_api.            *)
(***************************************************************************)
Contains(s, sub) ==
  \E i \in 1..(Len(s) - Len(sub) + 1) : SubSeq(s, i, i + Len(sub) - 1) = sub

Record1 == Obj(<< <<"id", Num(1)>>, <<"v", Obj(<< <<"n", Str("x")>> >>)>> >>)
Record2 == Obj(<< <<"id", Num(2)>> >>)
Record3 == Obj(<< <<"id", Num(3)>> >>)
RpcBodies ==
  { Lst(<<Record1, Record2>>),
    Obj(<< <<"data", Lst(<<Record3>>)>>, <<"message", Str("ok")>> >>),
    Lst(<<>>),
    Obj(<<>>),
    Num(5) }
\* A response: the call raised, or a status with a body that parses or not.
RpcResponses ==
  {[kind |-> "raises"]}
    \cup {[kind |-> "unparsable", status |-> 200]}
    \cup {[kind |-> "json", status |-> 500, body |-> Obj(<<>>)]}
    \cup {[kind |-> "json", status |-> 200, body |-> b] : b \in RpcBodies}

\* Line 73: data["data"] if "data" in data else data.  "in" raises on a
\* value that is no container, and the subscript raises on a list or a
\* string that holds "data".
IngestArg(data) ==
  CASE IsDict(data) ->
         [raised |-> FALSE,
          arg |-> IF HasKey(data.items, "data") THEN DictGet(data.items, "data") ELSE data]
    [] IsList(data) ->
         [raised |-> \E i \in 1..Len(data.elems) : data.elems[i] = Str("data"),
          arg |-> data]
    [] data.t = "str" -> [raised |-> Contains(data.s, "data"), arg |-> data]
    [] OTHER -> [raised |-> TRUE, arg |-> data]

(***************************************************************************)
(* Text, as Python's str methods treat it.                                 *)
(***************************************************************************)
Char(s, i) == SubSeq(s, i, i)
LowerChar(c) ==
  CASE c = "A" -> "a" [] c = "B" -> "b" [] c = "C" -> "c" [] c = "D" ->
    "d" [] c = "E" -> "e" [] c = "F" -> "f" [] c = "G" -> "g" [] c = "H"
    -> "h" [] c = "I" -> "i" [] c = "J" -> "j" [] c = "K" -> "k" [] c =
    "L" -> "l" [] c = "M" -> "m" [] c = "N" -> "n" [] c = "O" -> "o" [] c
    = "P" -> "p" [] c = "Q" -> "q" [] c = "R" -> "r" [] c = "S" -> "s" []
    c = "T" -> "t" [] c = "U" -> "u" [] c = "V" -> "v" [] c = "W" -> "w"
    [] c = "X" -> "x" [] c = "Y" -> "y" [] c = "Z" -> "z" [] OTHER -> c
\* str.lower()
RECURSIVE Lower(_)
Lower(s) ==
  IF s = "" THEN "" ELSE LowerChar(Char(s, 1)) \o Lower(SubSeq(s, 2, Len(s)))
IsSpace(c) == c \in {" ", "\n", "\t", "\r"}
\* str.strip()
RECURSIVE Strip(_)
Strip(s) ==
  IF s = "" THEN s
  ELSE IF IsSpace(Char(s, 1)) THEN Strip(SubSeq(s, 2, Len(s)))
  ELSE IF IsSpace(Char(s, Len(s))) THEN Strip(SubSeq(s, 1, Len(s) - 1))
  ELSE s
StartsWith(s, prefix) ==
  Len(s) >= Len(prefix) /\ SubSeq(s, 1, Len(prefix)) = prefix
EndsWith(s, suffix) ==
  Len(s) >= Len(suffix) /\ SubSeq(s, Len(s) - Len(suffix) + 1, Len(s)) = suffix
\* The places where sub occurs in s.
Occurs(s, sub) ==
  {i \in 1..(Len(s) - Len(sub) + 1) : SubSeq(s, i, i + Len(sub) - 1) = sub}
Min(S) == CHOOSE n \in S : \A m \in S : n <= m
Max(S) == CHOOSE n \in S : \A m \in S : n >= m

(***************************************************************************)
(* _simple_sql_fallback and _convert_to_sql.  A schema is the sequence of  *)
(* the column names, the keys of the dict get_table_schema returns in the  *)
(* order of its rows.                                                      *)
(***************************************************************************)
\* A faulty fallback: the count rule is tried before the show rule.
SimpleSqlFallbackCountFirst(user_message, table_name, schema) ==
  LET message_lower == Lower(user_message)
  IN IF Contains(message_lower, "count") \/ Contains(message_lower, "how many")
       THEN "SELECT COUNT(*) as total FROM " \o table_name
     ELSE IF Contains(message_lower, "all") \/ Contains(message_lower, "show")
               \/ Contains(message_lower, "list")
       THEN "SELECT * FROM " \o table_name \o " LIMIT 100"
     ELSE IF Contains(message_lower, "top") \/ Contains(message_lower, "latest")
               \/ Contains(message_lower, "recent")
       THEN "SELECT * FROM " \o table_name \o " ORDER BY " \o schema[1]
              \o " DESC LIMIT 10"
     ELSE "SELECT * FROM " \o table_name \o " LIMIT 50"

\* A faulty fallback: rule 3 orders by the last column of the schema.
SimpleSqlFallbackLastColumn(user_message, table_name, schema) ==
  LET message_lower == Lower(user_message)
  IN IF Contains(message_lower, "all") \/ Contains(message_lower, "show")
          \/ Contains(message_lower, "list")
       THEN "SELECT * FROM " \o table_name \o " LIMIT 100"
     ELSE IF Contains(message_lower, "count") \/ Contains(message_lower, "how many")
       THEN "SELECT COUNT(*) as total FROM " \o table_name
     ELSE IF Contains(message_lower, "top") \/ Contains(message_lower, "latest")
               \/ Contains(message_lower, "recent")
       THEN "SELECT * FROM " \o table_name \o " ORDER BY " \o schema[Len(schema)]
              \o " DESC LIMIT 10"
     ELSE "SELECT * FROM " \o table_name \o " LIMIT 50"

\* _simple_sql_fallback (lines 239-255).
SimpleSqlFallback(user_message, table_name, schema) ==
  LET message_lower == Lower(user_message)
      columns == schema
  IN IF Contains(message_lower, "all") \/ Contains(message_lower, "show")
          \/ Contains(message_lower, "list")
       THEN "SELECT * FROM " \o table_name \o " LIMIT 100"
     ELSE IF Contains(message_lower, "count") \/ Contains(message_lower, "how many")
       THEN "SELECT COUNT(*) as total FROM " \o table_name
     ELSE IF Contains(message_lower, "top") \/ Contains(message_lower, "latest")
               \/ Contains(message_lower, "recent")
       THEN "SELECT * FROM " \o table_name \o " ORDER BY " \o columns[1]
              \o " DESC LIMIT 10"
     ELSE "SELECT * FROM " \o table_name \o " LIMIT 50"

\* The three backquotes of a markdown fence (a TLA+ string cannot hold a
\* backquote; the tilde stands for it).
Fence == "~~~"

\* response_data["choices"][0]["message"]["content"].strip() (line 211):
\* any step of the lookup raises on a value of another shape.
Content(response_data) ==
  LET Missing == [raised |-> TRUE, text |-> ""] IN
  IF ~IsDict(response_data) \/ ~HasKey(response_data.items, "choices") THEN Missing
  ELSE LET choices == DictGet(response_data.items, "choices") IN
  IF ~IsList(choices) \/ Len(choices.elems) = 0 \/ ~IsDict(choices.elems[1])
       \/ ~HasKey(choices.elems[1].items, "message") THEN Missing
  ELSE LET message == DictGet(choices.elems[1].items, "message") IN
  IF ~IsDict(message) \/ ~HasKey(message.items, "content") THEN Missing
  ELSE LET content == DictGet(message.items, "content") IN
  IF content.t /= "str" THEN Missing
  ELSE [raised |-> FALSE, text |-> Strip(content.s)]

\* Lines 214-215: sql.split("\n", 1)[1].rsplit(fence, 1)[0].strip().  The
\* subscript [1] raises when sql has no newline.
Unfence(sql) ==
  IF Occurs(sql, "\n") = {} THEN [raised |-> TRUE, text |-> ""]
  ELSE LET rest == SubSeq(sql, Min(Occurs(sql, "\n")) + 1, Len(sql))
       IN [raised |-> FALSE,
           text |-> Strip(IF Occurs(rest, Fence) = {} THEN rest
                          ELSE SubSeq(rest, 1, Max(Occurs(rest, Fence)) - 1))]

\* A faulty _convert_to_sql: the status of the response is not looked at.
ConvertToSqlIgnoresStatus(response, user_message, table_name, schema) ==
  LET fallback == SimpleSqlFallback(user_message, table_name, schema) IN
  IF response.kind = "raises" \/ response.kind = "unparsable" THEN fallback
  ELSE LET c == Content(response.body) IN
  IF c.raised THEN fallback
  ELSE IF ~StartsWith(c.text, Fence) THEN c.text
  ELSE IF Unfence(c.text).raised THEN fallback ELSE Unfence(c.text).text

\* _convert_to_sql from the await of http_client.post on (lines 190-220).
\* The post raises (no connection, or the timeout of core/http.py), or
\* there is a response whose body parses as JSON or not.
ConvertToSql(response, user_message, table_name, schema) ==
  LET fallback == SimpleSqlFallback(user_message, table_name, schema) IN
  IF response.kind = "raises" \/ response.kind = "unparsable" THEN fallback
  ELSE IF response.status >= 400 THEN fallback
  ELSE LET c == Content(response.body) IN
  IF c.raised THEN fallback
  ELSE IF ~StartsWith(c.text, Fence) THEN c.text
  ELSE IF Unfence(c.text).raised THEN fallback ELSE Unfence(c.text).text

\* A body of the completion service with the given content.
Completion(content) ==
  Obj(<<<<"choices", Lst(<<Obj(<<<<"message", Obj(<<<<"content", content>>>>)>>>>)>>)>>>>)

(***************************************************************************)
(* SQL, as far as the outcome of query_table depends on it: the statement  *)
(* the engine reads in a text.  Keywords are read in either case.          *)
(***************************************************************************)
Select(table_name, order_by, limit) ==
  [op |-> "select", table |-> table_name, order_by |-> order_by, limit |-> limit]
Count(table_name) == [op |-> "count", table |-> table_name]
DropStatement(table_name) == [op |-> "drop", table |-> table_name]
DeleteStatement(table_name) == [op |-> "delete", table |-> table_name]
Invalid == [op |-> "invalid", table |-> ""]

After(s, prefix) == SubSeq(s, Len(prefix) + 1, Len(s))
Before(s, suffix) == SubSeq(s, 1, Len(s) - Len(suffix))
ParseSql(query) ==
  LET SelectFrom == "SELECT * FROM " IN
  IF StartsWith(query, "SELECT COUNT(*) as total FROM ")
    THEN Count(After(query, "SELECT COUNT(*) as total FROM "))
  ELSE IF StartsWith(query, "SELECT COUNT(*) AS total FROM ")
    THEN Count(After(query, "SELECT COUNT(*) AS total FROM "))
  ELSE IF StartsWith(query, "DROP TABLE ") THEN DropStatement(After(query, "DROP TABLE "))
  ELSE IF StartsWith(query, "DELETE FROM ") THEN DeleteStatement(After(query, "DELETE FROM "))
  ELSE IF StartsWith(query, SelectFrom) /\ EndsWith(query, " LIMIT 100")
    THEN Select(Before(After(query, SelectFrom), " LIMIT 100"), "", 100)
  ELSE IF StartsWith(query, SelectFrom) /\ EndsWith(query, " LIMIT 50")
    THEN Select(Before(After(query, SelectFrom), " LIMIT 50"), "", 50)
  ELSE IF StartsWith(query, SelectFrom) /\ EndsWith(query, " DESC LIMIT 10")
            /\ Occurs(query, " ORDER BY ") /= {}
    THEN LET at == Min(Occurs(query, " ORDER BY "))
         IN Select(SubSeq(query, Len(SelectFrom) + 1, at - 1),
                   Before(SubSeq(query, at + Len(" ORDER BY "), Len(query)),
                          " DESC LIMIT 10"),
                   10)
  ELSE Invalid

\* rows[:n]
FirstRows(rows, n) == SubSeq(rows, 1, IF Len(rows) < n THEN Len(rows) ELSE n)

\* ORDER BY column DESC over rows whose values are numbers or NULL (NULLs
\* come last): the row with the greatest value, then the rest in order.
SortKey(row, column) ==
  IF HasKey(row.items, column) /\ DictGet(row.items, column).t = "num"
    THEN DictGet(row.items, column).n ELSE -1
RECURSIVE OrderByDesc(_, _)
OrderByDesc(rows, column) ==
  IF rows = <<>> THEN <<>>
  ELSE LET top == CHOOSE i \in 1..Len(rows) :
                    /\ \A j \in 1..Len(rows) : SortKey(rows[j], column) <= SortKey(rows[i], column)
                    /\ \A j \in 1..(i - 1) : SortKey(rows[j], column) < SortKey(rows[i], column)
       IN <<rows[top]>> \o OrderByDesc(SubSeq(rows, 1, top - 1) \o SubSeq(rows, top + 1, Len(rows)),
                                      column)

\* conn.execute(query).fetchall() with conn.description: the engine raises,
\* or reports the columns and the rows of the statement's result.  A DROP
\* reports the column Success and no row, a DELETE the column Count and
\* one row.  "fails" is a failure of the engine that the statement does not
\* account for.
Execute(db, inst, query, fails) ==
  LET sql == ParseSql(query)
      tbl == Relation(db, inst, sql.table)
      Raised == [db |-> db, raised |-> TRUE, columns |-> <<>>, rows |-> <<>>]
  IN
  IF fails \/ ~inst.open \/ sql.op = "invalid" THEN Raised
  ELSE IF sql.op = "drop"
    THEN IF sql.table \in TableNames /\ db.tables[sql.table].present
           THEN [db |-> [db EXCEPT !.tables[sql.table] = NoTable], raised |-> FALSE,
                 columns |-> <<"Success">>, rows |-> <<>>]
           ELSE Raised
  ELSE IF sql.op = "delete"
    THEN IF sql.table \in TableNames /\ db.tables[sql.table].present
              /\ ~inst.views[sql.table].present
           THEN [db |-> [db EXCEPT !.tables[sql.table].rows = <<>>], raised |-> FALSE,
                 columns |-> <<"Count">>,
                 rows |-> <<Obj(<<<<"Count", Num(Len(db.tables[sql.table].rows))>>>>)>>]
           ELSE Raised
  ELSE IF ~tbl.present THEN Raised
  ELSE IF sql.op = "count"
    THEN [db |-> db, raised |-> FALSE, columns |-> <<"total">>,
          rows |-> <<Obj(<<<<"total", Num(Len(tbl.rows))>>>>)>>]
  ELSE IF sql.order_by /= "" /\ \A c \in 1..Len(tbl.cols) : tbl.cols[c] /= sql.order_by
    THEN Raised
  ELSE [db |-> db, raised |-> FALSE, columns |-> tbl.cols,
        rows |-> FirstRows(IF sql.order_by = "" THEN tbl.rows
                      ELSE OrderByDesc(tbl.rows, sql.order_by),
                      sql.limit)]

\* dict(zip(columns, row)) for each row (line 188): every column has a
\* value, NULL where the table holds none.
RowMappings(columns, rows) ==
  [i \in 1..Len(rows) |->
     Obj([c \in 1..Len(columns) |->
            <<columns[c], IF HasKey(rows[i].items, columns[c])
                            THEN DictGet(rows[i].items, columns[c]) ELSE Null>>])]

\* A faulty query_table: a result without rows is returned as None.
QueryTableEmptyIsNone(db, inst, query, fails) ==
  LET e == Execute(db, inst, query, fails)
  IN IF e.raised \/ e.rows = <<>>
       THEN [db |-> e.db, none |-> TRUE, columns |-> <<>>, data |-> <<>>]
       ELSE [db |-> e.db, none |-> FALSE, columns |-> e.columns,
             data |-> RowMappings(e.columns, e.rows)]

\* query_table (lines 182-193): None when the engine raises, else the
\* columns and one mapping from column to value for each row.
QueryTable(db, inst, query, fails) ==
  LET e == Execute(db, inst, query, fails)
  IN IF e.raised
       THEN [db |-> e.db, none |-> TRUE, columns |-> <<>>, data |-> <<>>]
       ELSE [db |-> e.db, none |-> FALSE, columns |-> e.columns,
             data |-> RowMappings(e.columns, e.rows)]

(***************************************************************************)
(* The state.                                                              *)
(***************************************************************************)
VARIABLES
  dbBasePath,    \* DB_BASE_PATH, read from the environment once
  userDbs,       \* _user_dbs
  chatServices,  \* _chat_services
  instances,     \* every DuckDBService constructed so far
  databases,     \* the database at each db_path
  reqs,          \* the handlers suspended at an await
  phase,         \* "running", or "stopped" once shutdown_event has run
  last           \* what the latest handler step did and returned

vars == <<dbBasePath, userDbs, chatServices, instances, databases, reqs, phase, last>>

Slots == 1..MaxInFlight
Idle == [pc |-> "idle"]

Init ==
  /\ dbBasePath \in BasePaths
  /\ userDbs = <<>>
  /\ chatServices = [u \in Tenants |-> 0]
  /\ instances = <<>>
  /\ databases = [p \in AllPaths |-> EmptyDatabase]
  /\ reqs = [r \in Slots |-> Idle]
  /\ phase = "running"
  /\ last = [op |-> "none"]

Database(id) == databases[instances[id].db_path]

\* A call may construct a service only while the model has room for one
\* (cap services in all), and a construction has one outcome to choose.
MayCall(user_id, how, cap) ==
  IF HasKey(userDbs, user_id) THEN how = "ok" ELSE Len(instances) < cap
MayCallService(user_id, how, cap) ==
  IF chatServices[user_id] /= 0 THEN how = "ok" ELSE MayCall(user_id, how, cap)
\* A new request takes the first free slot.
FreeSlot(r) == reqs[r] = Idle /\ \A q \in Slots : q < r => reqs[q] /= Idle

\* What a call of get_db or get_chat_service leaves in "last".
Called(op, user_id, g) ==
  [op |-> op, user |-> user_id, raised |-> g.raised, db |-> g.db]

\* init_chat up to the await of http_client.post (routes/chat.py line 28,
\* chat_service.py lines 40-53).
InitChatStart(r, user_id, table_name, rpc_name, how, cap) ==
  LET s == GetChatService(chatServices, userDbs, instances, databases,
                          dbBasePath, user_id, how) IN
  /\ phase = "running" /\ FreeSlot(r) /\ MayCallService(user_id, how, cap)
  /\ chatServices' = s.svcs /\ userDbs' = s.reg
  /\ instances' = s.insts /\ databases' = s.dbs
  /\ reqs' = IF s.raised THEN reqs
             ELSE [reqs EXCEPT ![r] = [pc |-> "await_rpc", user |-> user_id,
                                       table |-> table_name, rpc |-> rpc_name,
                                       db |-> s.db]]
  /\ last' = Called("get_chat_service", user_id, s)
  /\ UNCHANGED <<dbBasePath, phase>>

\* Whether a response brings initialize_from_api to the engine (an engine
\* failure has nothing to fail otherwise).
ReachesEngine(resp) ==
  /\ resp.kind = "json" /\ resp.status < 400
  /\ ~IngestArg(resp.body).raised
  /\ LET norm == Normalize(IngestArg(resp.body).arg)
     IN norm.kind = "frame" \/ (norm.kind = "records" /\ Len(norm.records) > 0)

\* initialize_from_api from the response on (lines 55-94).
InitializeFromApi(db, inst, table_name, resp, fail) ==
  IF resp.kind = "raises" THEN [db |-> db, views |-> inst.views, is_success |-> FALSE,
                                message |-> "Error initializing chat data", exit |-> "none"]
  ELSE IF resp.kind = "unparsable"
    THEN [db |-> db, views |-> inst.views, is_success |-> FALSE,
          message |-> "Failed to parse API response", exit |-> "none"]
  ELSE IF resp.status >= 400
    THEN [db |-> db, views |-> inst.views, is_success |-> FALSE,
          message |-> "API error", exit |-> "none"]
  ELSE LET a == IngestArg(resp.body) IN
    IF a.raised THEN [db |-> db, views |-> inst.views, is_success |-> FALSE,
                      message |-> "Error initializing chat data", exit |-> "none"]
    ELSE LET o == CreateTableFromResponse(db, inst.views, table_name, a.arg,
                                          IF inst.open THEN fail ELSE EngineCalls)
         IN [db |-> o.db, views |-> o.views, is_success |-> o.ret,
             message |-> IF o.ret THEN "Successfully stored"
                         ELSE "Failed to create table from API response",
             exit |-> o.exit]

InitChatResume(r, resp, fail) ==
  /\ reqs[r].pc = "await_rpc"
  /\ fail = {} \/ ReachesEngine(resp)
  /\ LET id == reqs[r].db
         res == InitializeFromApi(Database(id), instances[id], reqs[r].table, resp, fail)
     IN /\ databases' = [databases EXCEPT ![instances[id].db_path] = res.db]
        /\ instances' = [instances EXCEPT ![id].views = res.views]
        /\ last' = [op |-> "init_chat", user |-> reqs[r].user, table |-> reqs[r].table,
                    rpc |-> reqs[r].rpc, db |-> id, is_success |-> res.is_success,
                    message |-> res.message, exit |-> res.exit,
                    body |-> IF res.exit = "none" THEN Null ELSE resp.body,
                    before |-> Database(id).tables[reqs[r].table]]
  /\ reqs' = [reqs EXCEPT ![r] = Idle]
  /\ UNCHANGED <<dbBasePath, userDbs, chatServices, phase>>

\* chat_query up to the await inside _convert_to_sql (routes/chat.py line
\* 62, chat_service.py lines 111-203); it ends at once without a schema.
ChatStart(r, user_id, table_name, user_message, how, cap) ==
  LET s == GetChatService(chatServices, userDbs, instances, databases,
                          dbBasePath, user_id, how)
      schema == GetTableSchema(s.dbs[s.insts[s.db].db_path], s.insts[s.db], table_name)
  IN
  /\ phase = "running" /\ FreeSlot(r) /\ MayCallService(user_id, how, cap)
  /\ chatServices' = s.svcs /\ userDbs' = s.reg
  /\ instances' = s.insts /\ databases' = s.dbs
  /\ IF s.raised
       THEN /\ reqs' = reqs
            /\ last' = Called("get_chat_service", user_id, s)
     ELSE IF schema = <<>>
       THEN /\ reqs' = reqs
            /\ last' = [op |-> "chat", user |-> user_id, table |-> table_name,
                        db |-> s.db, is_success |-> FALSE, message |-> "Table not found"]
     ELSE /\ reqs' = [reqs EXCEPT ![r] = [pc |-> "await_llm", user |-> user_id,
                                          table |-> table_name, db |-> s.db,
                                          message |-> user_message,
                                          schema |-> schema]]
          /\ last' = Called("get_chat_service", user_id, s)
  /\ UNCHANGED <<dbBasePath, phase>>

\* chat from the answer of the completion service on (lines 205-220 and
\* 127-152).
ChatResume(r, response, fails) ==
  /\ reqs[r].pc = "await_llm"
  /\ LET id == reqs[r].db
         sql_query == ConvertToSql(response, reqs[r].message, reqs[r].table,
                                   reqs[r].schema)
         q == QueryTable(Database(id), instances[id], sql_query, fails)
     IN IF sql_query = ""
          THEN /\ ~fails
               /\ databases' = databases
               /\ last' = [op |-> "chat", user |-> reqs[r].user, table |-> reqs[r].table,
                           db |-> id, is_success |-> FALSE,
                           message |-> "Could not parse query"]
          ELSE /\ databases' = [databases EXCEPT ![instances[id].db_path] = q.db]
               /\ last' = [op |-> "chat", user |-> reqs[r].user, table |-> reqs[r].table,
                           db |-> id, is_success |-> ~q.none,
                           message |-> IF q.none THEN "Query execution failed" ELSE "",
                           query |-> sql_query, columns |-> q.columns, data |-> q.data]
  /\ reqs' = [reqs EXCEPT ![r] = Idle]
  /\ UNCHANGED <<dbBasePath, userDbs, chatServices, instances, phase>>

\* GET /tables (routes/chat.py lines 85-91).
ListTablesRoute(user_id, how, cap) ==
  LET g == GetDb(userDbs, instances, databases, dbBasePath, user_id, how) IN
  /\ phase = "running" /\ MayCall(user_id, how, cap)
  /\ userDbs' = g.reg /\ instances' = g.insts /\ databases' = g.dbs
  /\ last' = Called("get_db", user_id, g)
  /\ UNCHANGED <<dbBasePath, chatServices, reqs, phase>>

\* GET /tables/{table_name} (routes/chat.py lines 104-116).
GetTableInfoRoute(user_id, table_name, how, cap) ==
  LET g == GetDb(userDbs, instances, databases, dbBasePath, user_id, how) IN
  /\ phase = "running" /\ MayCall(user_id, how, cap)
  /\ userDbs' = g.reg /\ instances' = g.insts /\ databases' = g.dbs
  /\ last' = Called("get_db", user_id, g)
  /\ UNCHANGED <<dbBasePath, chatServices, reqs, phase>>

\* close_db, which no handler calls: an eviction by the embedding program.
CloseDbCall(user_id, fails) ==
  LET c == CloseDb(userDbs, instances, databases, dbBasePath, user_id, fails) IN
  /\ phase = "running" /\ HasKey(userDbs, user_id)
  /\ userDbs' = c.reg /\ instances' = c.insts /\ databases' = c.dbs
  /\ last' = [op |-> "close_db", user |-> user_id, raised |-> c.raised]
  /\ UNCHANGED <<dbBasePath, chatServices, reqs, phase>>

\* shutdown_event (main.py lines 14-17), once the server has drained its
\* requests.
Shutdown(failing) ==
  LET c == CloseAllDbs(userDbs, instances, databases, dbBasePath, failing) IN
  /\ phase = "running" /\ \A r \in Slots : reqs[r] = Idle
  /\ failing \subseteq {userDbs[i][1] : i \in 1..Len(userDbs)}
  /\ userDbs' = c.reg /\ instances' = c.insts /\ databases' = c.dbs
  /\ phase' = "stopped"
  /\ last' = [op |-> "close_all_dbs", raised |-> c.raised, failing |-> failing,
              swept |-> {userDbs[i][2] : i \in 1..Len(userDbs)},
              closesBefore |-> [i \in 1..Len(instances) |-> instances[i].closes]]
  /\ UNCHANGED <<dbBasePath, chatServices, reqs>>

(***************************************************************************)
(* The service with every tenant and both storage modes: the registry and  *)
(* the lifetime of the stores.  The remote procedure answers with one      *)
(* body or an error, and the engine does not fail.                         *)
(***************************************************************************)
MaxInstances == 2
LifecycleResponses ==
  {[kind |-> "raises"],
   [kind |-> "json", status |-> 200, body |-> Lst(<<Record1, Record2>>)]}

Next ==
  \/ \E r \in Slots, u \in Tenants, n \in TableNames, how \in ConstructionOutcomes :
       InitChatStart(r, u, n, DefaultRpcName, how, MaxInstances)
  \/ \E r \in Slots, resp \in LifecycleResponses : InitChatResume(r, resp, {})
  \/ \E r \in Slots, u \in Tenants, n \in TableNames, how \in ConstructionOutcomes :
       ChatStart(r, u, n, "how many", how, MaxInstances)
  \/ \E r \in Slots : ChatResume(r, [kind |-> "raises"], FALSE)
  \/ \E u \in Tenants, how \in ConstructionOutcomes : ListTablesRoute(u, how, MaxInstances)
  \/ \E u \in Tenants, n \in TableNames, how \in ConstructionOutcomes :
       GetTableInfoRoute(u, n, how, MaxInstances)
  \/ \E u \in Tenants, fails \in BOOLEAN : CloseDbCall(u, fails)
  \/ \E failing \in SUBSET Tenants : Shutdown(failing)

Spec == Init /\ [][Next]_vars

(***************************************************************************)
(* One tenant's store with every response, engine failure and completion.  *)
(***************************************************************************)
MaxStoreInstances == 2
StoreTenants == {"alice"}
\* The table a chat_query can name: any text, _metadata among them.
ChatTables == TableNames \cup {MetadataTable}
StoreQuestions == {"latest"}
\* What the completion service answers: nothing (the post raises), or a
\* content that is a statement of its own, no text at all, or nothing
\* between two fences.
StoreContents ==
  {"SELECT COUNT(*) AS total FROM t1", "DROP TABLE t1", "DELETE FROM t1", "",
   Fence \o "\n" \o Fence}
StoreCompletions ==
  {[kind |-> "raises"]}
    \cup {[kind |-> "json", status |-> 200, body |-> Completion(Str(c))] : c \in StoreContents}

NextStore ==
  \/ \E r \in Slots, u \in StoreTenants, n \in TableNames, how \in ConstructionOutcomes :
       InitChatStart(r, u, n, DefaultRpcName, how, MaxStoreInstances)
  \/ \E r \in Slots, resp \in RpcResponses, fail \in EngineFailures :
       InitChatResume(r, resp, fail)
  \/ \E r \in Slots, u \in StoreTenants, n \in ChatTables, q \in StoreQuestions,
          how \in ConstructionOutcomes :
       ChatStart(r, u, n, q, how, MaxStoreInstances)
  \/ \E r \in Slots, c \in StoreCompletions : ChatResume(r, c, FALSE)
  \/ \E r \in Slots : ChatResume(r, [kind |-> "raises"], TRUE)
  \/ \E u \in StoreTenants, how \in ConstructionOutcomes :
       ListTablesRoute(u, how, MaxStoreInstances)
  \/ \E u \in StoreTenants, n \in TableNames, how \in ConstructionOutcomes :
       GetTableInfoRoute(u, n, how, MaxStoreInstances)
  \/ \E u \in StoreTenants, fails \in BOOLEAN : CloseDbCall(u, fails)
  \/ \E failing \in SUBSET StoreTenants : Shutdown(failing)

SpecStore == Init /\ [][NextStore]_vars

(***************************************************************************)
(* The two functions of the ingest on their own: _flatten_nested_objects   *)
(* and create_table_from_response, applied to inputs drawn from bounded    *)
(* sets of the values response.json() can return.                          *)
(***************************************************************************)
MaxFields == 2
MaxRecords == 2
Keys == {"a", "b", "a_b"}
Scalars == {Null, Num(1), Str("x")}
ChildValues ==
  Scalars \cup {Obj(<<>>), Lst(<<>>), Obj(<<<<"c", Num(1)>>>>), Lst(<<Num(1)>>)}
NestedObjects ==
  {Obj(<<<<"b", v>>>>) : v \in ChildValues}
    \cup {Obj(<<<<"b", v>>, <<"c", w>>>>) :
            v \in {Num(1), Obj(<<>>)}, w \in {Str("x"), Lst(<<Num(1)>>)}}
ListValues ==
  {Lst(<<>>), Lst(<<Num(1)>>), Lst(<<Obj(<<>>)>>),
   Lst(<<Obj(<<<<"b", Num(1)>>>>), Num(1)>>), Lst(<<Num(1), Obj(<<>>)>>)}
FieldValues == Scalars \cup {Obj(<<>>)} \cup NestedObjects \cup ListValues

\* The dicts of n fields with distinct keys.
RECURSIVE ItemsOfLen(_)
ItemsOfLen(n) ==
  IF n = 0 THEN {<<>>}
  ELSE {Append(q[1], <<q[2], q[3]>>) :
          q \in {p \in ItemsOfLen(n - 1) \X Keys \X FieldValues : ~HasKey(p[1], p[2])}}
Records == {Obj(items) : items \in UNION {ItemsOfLen(n) : n \in 0..MaxFields}}

SampleRecords ==
  {Obj(<<>>), Obj(<<<<"a", Num(1)>>>>), Obj(<<<<"a", Null>>>>),
   Obj(<<<<"b", Str("x")>>>>), Obj(<<<<"a", Obj(<<<<"b", Num(1)>>>>)>>>>),
   Obj(<<<<"a", Obj(<<<<"b", Obj(<<>>)>>>>)>>>>),
   Obj(<<<<"a", Lst(<<Obj(<<<<"b", Num(1)>>>>)>>)>>>>),
   Obj(<<<<"a", Num(1)>>, <<"b", Str("x")>>>>)}
RECURSIVE ListsOfLen(_)
ListsOfLen(n) ==
  IF n = 0 THEN {<<>>}
  ELSE {Append(rs, r) : rs \in ListsOfLen(n - 1), r \in SampleRecords}
RecordLists == UNION {ListsOfLen(n) : n \in 0..MaxRecords}

FlattenInputs == RecordLists \cup {<<r>> : r \in Records}
Wrapped ==
  {Lst(rs) : rs \in ListsOfLen(0) \cup ListsOfLen(MaxRecords)}
    \cup Scalars \cup {Obj(<<>>), Obj(<<<<"a", Num(1)>>>>)}
Payloads ==
  {Lst(rs) : rs \in RecordLists}
    \cup {Obj(<<<<"data", v>>>>) : v \in Wrapped}
    \cup {Obj(<<<<"message", Str("x")>>, <<"data", v>>>>) : v \in Wrapped}
    \cup SampleRecords \cup Scalars \cup {Lst(<<Num(1)>>)}

\* The store as DuckDBService.__init__ leaves it.
NewDatabase == [EmptyDatabase EXCEPT !.hasMeta = TRUE]

\* The stores an ingest can meet: a new one, or one that holds the table
\* of an earlier ingest through the same connection.
StoresBefore(table_name) ==
  LET o == CreateTableFromResponse(NewDatabase, NoViews, table_name,
                                   Lst(<<Record3>>), {})
  IN {[db |-> NewDatabase, views |-> NoViews], [db |-> o.db, views |-> o.views]}

\* The answers of the RPC that initialize_from_api is applied to: those of
\* RpcResponses, and bodies whose "data" field is an object, a wrapper of
\* its own, a number or an empty list, or that are a text or null.
ResponseBodies ==
  RpcBodies \cup
    { Obj(<< <<"data", Record3>>, <<"message", Str("ok")>> >>),
      Obj(<< <<"data", Obj(<< <<"data", Lst(<<Record1, Record2>>)>> >>)>> >>),
      Obj(<< <<"data", Num(5)>> >>),
      Obj(<< <<"data", Lst(<<>>)>> >>),
      Str("no data"), Null }
Responses ==
  RpcResponses \cup {[kind |-> "json", status |-> 200, body |-> b] : b \in ResponseBodies}

\* The stores a statement can meet: a new one; one with the table of an
\* ingest, through the connection that ingested it, through another
\* connection, or through a closed one; and one whose table has lost its
\* rows to a DELETE.
QueryStores ==
  LET inst == NewInstance("alice", MemoryPath)
      o == CreateTableFromResponse(NewDatabase, NoViews, "t1", Lst(<<Record1, Record2>>), {})
      emptied == Execute(o.db, inst, "DELETE FROM t1", FALSE).db
  IN {[db |-> NewDatabase, inst |-> inst],
      [db |-> o.db, inst |-> [inst EXCEPT !.views = o.views]],
      [db |-> o.db, inst |-> inst],
      [db |-> o.db, inst |-> [inst EXCEPT !.open = FALSE]],
      [db |-> emptied, inst |-> inst]}
Statements ==
  {"SELECT COUNT(*) AS total FROM t1", "SELECT COUNT(*) as total FROM tickets",
   "SELECT * FROM t1 LIMIT 100", "SELECT * FROM t1 LIMIT 50",
   "SELECT * FROM t1 ORDER BY id DESC LIMIT 10",
   "SELECT * FROM t1 ORDER BY created_at DESC LIMIT 10",
   "SELECT * FROM _metadata LIMIT 50", "SELECT COUNT(*) as total FROM _metadata",
   "DROP TABLE t1", "DELETE FROM t1", "I cannot answer that"}

\* The inputs of the translation: questions, table names, schemas in the
\* order DESCRIBE reports the columns, and what the completion service
\* can answer.
Questions ==
  {"show all tickets and count them", "how many tickets are there?",
   "show the latest 5", "the latest 5", "Most RECENT", "TOP 3", "Count",
   "HOW MANY", "List", "install", "count the top", "what is new", ""}
TranslateTables == {"tickets"} \cup TableNames
Schemas == {<<"id", "created_at">>, <<"created_at", "id">>, <<"id">>}
Contents ==
  {"SELECT COUNT(*) AS total FROM tickets", "  SELECT * FROM tickets LIMIT 50\n",
   Fence \o "sql\nSELECT * FROM tickets LIMIT 50\n" \o Fence,
   Fence \o "sql\nDROP TABLE tickets", Fence, Fence \o "\n" \o Fence, "", " \n",
   "DROP TABLE tickets", "I cannot answer that"}
CompletionBodies ==
  {Completion(Str(c)) : c \in Contents}
    \cup {Completion(Null), Completion(Num(1)), Obj(<<>>), Lst(<<>>), Null,
          Obj(<<<<"choices", Lst(<<>>)>>>>), Obj(<<<<"choices", Str("x")>>>>),
          Obj(<<<<"error", Obj(<<<<"message", Str("quota")>>>>)>>>>)}
CompletionResponses ==
  {[kind |-> "raises"]}
    \cup {[kind |-> "unparsable", status |-> st] : st \in {200, 502}}
    \cup {[kind |-> "json", status |-> 200, body |-> b] : b \in CompletionBodies}
    \cup {[kind |-> "json", status |-> st, body |-> b] :
            st \in {401, 500},
            b \in {Completion(Str("SELECT COUNT(*) AS total FROM tickets")),
                   Obj(<<<<"error", Obj(<<<<"message", Str("quota")>>>>)>>>>)}}
TranslateInputs ==
  {[message |-> q, table |-> t, schema |-> sc] :
     q \in Questions, t \in TranslateTables, sc \in Schemas}

InitPure ==
  /\ dbBasePath = MemoryPath
  /\ userDbs = <<>>
  /\ chatServices = [u \in Tenants |-> 0]
  /\ instances = <<>>
  /\ databases = [p \in AllPaths |-> EmptyDatabase]
  /\ reqs = [r \in Slots |-> Idle]
  /\ phase = "running"
  /\ last \in {[op |-> "records", records |-> rs] : rs \in FlattenInputs}
              \cup {[op |-> "payload", data |-> d] : d \in Payloads}
              \cup UNION {{[op |-> "stored", data |-> d, table |-> t, before |-> b] :
                             d \in Payloads, b \in StoresBefore(t)} : t \in TableNames}
              \cup UNION {{[op |-> "response", resp |-> resp, table |-> t, before |-> b] :
                             resp \in Responses, b \in StoresBefore(t)} : t \in TableNames}
              \cup {[op |-> "question", message |-> i.message, table |-> i.table,
                      schema |-> i.schema] : i \in TranslateInputs}
              \cup {[op |-> "statement", query |-> q, store |-> st] :
                      q \in Statements, st \in QueryStores}

\* _flatten_nested_objects(records).
FlattenCall ==
  /\ last.op = "records"
  /\ last' = [op |-> "flatten", records |-> last.records,
              flattened |-> FlattenNestedObjects(last.records)]
  /\ UNCHANGED <<dbBasePath, userDbs, chatServices, instances, databases, reqs, phase>>

\* create_table_from_response(table_name, data) on a new store.
CreateTableCall(table_name) ==
  /\ last.op = "payload"
  /\ LET o == CreateTableFromResponse(NewDatabase, NoViews, table_name, last.data, {})
     IN last' = [op |-> "create_table", data |-> last.data, table |-> table_name,
                 ret |-> o.ret, exit |-> o.exit, db |-> o.db]
  /\ UNCHANGED <<dbBasePath, userDbs, chatServices, instances, databases, reqs, phase>>

\* create_table_from_response(table_name, data) on either store, with the
\* engine calls of "fail" raising.
IngestCall(fail) ==
  /\ last.op = "stored"
  /\ LET o == CreateTableFromResponse(last.before.db, last.before.views, last.table,
                                      last.data, fail)
     IN last' = [op |-> "ingest", data |-> last.data, table |-> last.table,
                 fail |-> fail, before |-> last.before.db,
                 ret |-> o.ret, exit |-> o.exit, db |-> o.db]
  /\ UNCHANGED <<dbBasePath, userDbs, chatServices, instances, databases, reqs, phase>>

\* _simple_sql_fallback(user_message, table_name, schema).
SimpleSqlFallbackCall ==
  /\ last.op = "question"
  /\ last' = [op |-> "fallback", message |-> last.message, table |-> last.table,
              schema |-> last.schema,
              sql |-> SimpleSqlFallback(last.message, last.table, last.schema)]
  /\ UNCHANGED <<dbBasePath, userDbs, chatServices, instances, databases, reqs, phase>>

\* _convert_to_sql(user_message, table_name, schema) with the answer of the
\* completion service.
ConvertToSqlCall(response) ==
  /\ last.op = "question"
  /\ last' = [op |-> "convert_to_sql", message |-> last.message, table |-> last.table,
              schema |-> last.schema, response |-> response,
              sql |-> ConvertToSql(response, last.message, last.table, last.schema)]
  /\ UNCHANGED <<dbBasePath, userDbs, chatServices, instances, databases, reqs, phase>>

\* query_table(query) on the store.
QueryCall(fails) ==
  /\ last.op = "statement"
  /\ last' = [op |-> "query", query |-> last.query, store |-> last.store,
              fails |-> fails,
              ret |-> QueryTable(last.store.db, last.store.inst, last.query, fails)]
  /\ UNCHANGED <<dbBasePath, userDbs, chatServices, instances, databases, reqs, phase>>

\* initialize_from_api from the answer of the RPC on, through the
\* connection that made the store, with the engine calls of "fail" raising.
InitializeFromApiCall(fail) ==
  /\ last.op = "response"
  /\ fail = {} \/ ReachesEngine(last.resp)
  /\ LET inst == [NewInstance("alice", MemoryPath) EXCEPT !.views = last.before.views]
         res == InitializeFromApi(last.before.db, inst, last.table, last.resp, fail)
     IN last' = [op |-> "initialize", resp |-> last.resp, table |-> last.table,
                 fail |-> fail, before |-> last.before.db,
                 views |-> last.before.views,
                 is_success |-> res.is_success, message |-> res.message,
                 exit |-> res.exit, db |-> res.db]
  /\ UNCHANGED <<dbBasePath, userDbs, chatServices, instances, databases, reqs, phase>>

NextPure ==
  \/ \E fail \in EngineFailures : InitializeFromApiCall(fail)
  \/ \E fails \in BOOLEAN : QueryCall(fails)
  \/ SimpleSqlFallbackCall
  \/ \E response \in CompletionResponses : ConvertToSqlCall(response)
  \/ FlattenCall
  \/ \E table_name \in TableNames : CreateTableCall(table_name)
  \/ \E fail \in EngineFailures : IngestCall(fail)

SpecPure == InitPure /\ [][NextPure]_vars

(***************************************************************************)
(* The claims.                                                             *)
(***************************************************************************)
InFlight(r) == reqs[r] /= Idle

\* C1: however get_db calls of concurrent requests for one tenant
\* interleave, one DuckDBService is constructed for the tenant and every
\* call returns it: a service that was never closed is the one the registry
\* holds for its user, so no second one exists beside it, and the requests
\* in flight for a tenant hold the same service.
C1_OneStorePerTenant ==
  /\ \A i \in 1..Len(instances) :
       instances[i].closes = 0 =>
         /\ HasKey(userDbs, instances[i].user_id)
         /\ DictGet(userDbs, instances[i].user_id) = i
  /\ \A r1, r2 \in Slots :
       InFlight(r1) /\ InFlight(r2) /\ reqs[r1].user = reqs[r2].user
         => reqs[r1].db = reqs[r2].db

\* Two requests of one tenant are suspended at the same time, the first of
\* them having constructed the tenant's only service.
C1_Witness ==
  /\ InFlight(1) /\ InFlight(2) /\ reqs[1].user = reqs[2].user
  /\ reqs[1].db = reqs[2].db
  /\ instances[reqs[1].db].closes = 0
  /\ Cardinality({i \in 1..Len(instances) : instances[i].user_id = reqs[1].user}) = 1

\* The tables and the metadata rows of the database a tenant's service
\* opens.
StoreOf(user_id) ==
  [tables |-> databases[DbPath(user_id, dbBasePath)].tables,
   meta |-> databases[DbPath(user_id, dbBasePath)].meta]
TenantOps == {"init_chat", "chat", "get_db", "get_chat_service"}

\* C2: a step of a request of one tenant (ingest, query, list or describe)
\* leaves the tables and the metadata of every other tenant's store as
\* they were.
C2_TenantIsolation ==
  [][\A b \in Tenants :
       (last'.op \in TenantOps /\ last'.user /= b) => StoreOf(b)' = StoreOf(b)]_vars

\* C3: when close_all_dbs returns, the registry is empty, every store it
\* held has been closed exactly once, and a store that close_db had closed
\* and removed before is not closed again.
C3_CloseAllClosesOnce ==
  (last.op = "close_all_dbs" /\ ~last.raised) =>
    /\ userDbs = <<>>
    /\ \A i \in last.swept : instances[i].closes = 1 /\ ~instances[i].open
    /\ \A i \in 1..Len(instances) :
         i \notin last.swept => instances[i].closes = last.closesBefore[i]

\* close_all_dbs has returned after closing the stores it held, another
\* store having been closed and removed by close_db before.
C3_Witness ==
  /\ last.op = "close_all_dbs" /\ ~last.raised
  /\ Cardinality(last.swept) >= 1
  /\ \E i \in 1..Len(instances) : i \notin last.swept /\ instances[i].closes = 1

\* C4: when the close of a store raises during close_all_dbs, the other
\* stores are closed all the same, the registry is emptied and nothing is
\* raised to the caller.
C4_SweepSurvivesFailure ==
  (last.op = "close_all_dbs" /\ last.failing /= {}) =>
    /\ ~last.raised
    /\ userDbs = <<>>
    /\ \A i \in last.swept :
         instances[i].user_id \notin last.failing => ~instances[i].open

\* The payload initialize_from_api hands to create_table_from_response for
\* the response body of the latest init_chat.
LastArg == IngestArg(last.body).arg
InputLength(data) ==
  IF IsList(data) THEN Len(data.elems)
  ELSE IF IsDict(data) /\ HasKey(data.items, "data")
            /\ IsList(DictGet(data.items, "data"))
    THEN Len(DictGet(data.items, "data").elems)
  ELSE 1
Occurrences(names, name) ==
  Cardinality({i \in 1..Len(names) : names[i] = name})

C7_EmptyPayloadRejected ==
  (last.op = "init_chat" /\ last.exit /= "none"
     /\ LastArg \in {Lst(<<>>), Obj(<<>>)}) =>
    /\ last.exit = "empty"
    /\ ~last.is_success
    /\ Database(last.db).tables[last.table] = last.before

IsContainer(v) == IsDict(v) \/ IsList(v)

\* The record sequence the payload stands for: the payload itself when it
\* is a sequence, its "data" when it is an object whose "data" is a
\* sequence, the object alone otherwise.
RecordsOfPayload(data) ==
  IF IsList(data) THEN data.elems
  ELSE IF HasKey(data.items, "data") /\ IsList(DictGet(data.items, "data"))
    THEN DictGet(data.items, "data").elems
  ELSE <<data>>

\* C6: create_table_from_response ingests the payload itself when it is a
\* sequence, the "data" sequence of an object that has one (its other keys
\* left aside), an object of any other kind as one record, and turns down
\* every other payload without touching the store.
C6_PayloadNormalization ==
  last.op = "create_table" =>
    IF IsContainer(last.data)
      THEN LET records == RecordsOfPayload(last.data) IN
           /\ last.exit /= "unsupported"
           /\ (records = <<>>) = (last.exit = "empty")
           /\ last.ret =>
                /\ last.db.tables[last.table].present
                /\ last.db.tables[last.table].rows = FlattenNestedObjects(records)
                /\ last.db.meta[last.table].row_count = Len(records)
      ELSE ~last.ret /\ last.exit = "unsupported" /\ last.db = NewDatabase

\* An object with a "data" sequence and another key has been ingested as
\* the records of that sequence.
C6_Witness ==
  /\ last.op = "create_table" /\ last.ret
  /\ IsDict(last.data) /\ Len(last.data.items) = 2
  /\ Len(last.db.tables[last.table].rows) = MaxRecords
  /\ last.db.tables[last.table].rows
       = FlattenNestedObjects(DictGet(last.data.items, "data").elems)

\* C8: _flatten_nested_objects returns as many records as it is given, the
\* i-th of them the flat record of the i-th input: none is dropped,
\* duplicated or moved.
C8_FlattenTotal ==
  last.op = "flatten" =>
    /\ Len(last.flattened) = Len(last.records)
    /\ \A i \in 1..Len(last.records) :
         /\ IsDict(last.flattened[i])
         /\ last.flattened[i] = FlattenRecord(last.records[i])

\* Several records whose flat records differ have been flattened.
C8_Witness ==
  /\ last.op = "flatten" /\ Len(last.records) = MaxRecords
  /\ last.flattened[1] /= last.flattened[MaxRecords]
  /\ last.flattened[1] /= last.records[1]

IsFlat(record) ==
  \A i \in 1..Len(record.items) : ~IsContainer(record.items[i][2])

\* C9: a record none of whose values is a dict or a list comes out of the
\* flattening as it went in, so flattening it again changes nothing.
C9_FlatRecordsUnchanged ==
  last.op = "flatten" =>
    \A i \in 1..Len(last.records) :
      IsFlat(last.records[i]) =>
        /\ last.flattened[i] = last.records[i]
        /\ FlattenRecord(last.flattened[i]) = last.flattened[i]

\* A flat record of several fields, a null among them, has been flattened.
C9_Witness ==
  /\ last.op = "flatten" /\ Len(last.records) = 1
  /\ IsFlat(last.records[1]) /\ Len(last.records[1].items) = MaxFields
  /\ \E i \in 1..MaxFields : last.records[1].items[i][2] = Null
  /\ last.flattened = last.records

IsNested(value) == IsDict(value) /\ Truthy(value)
\* The columns field i of a record is written to, in the order of writing.
ColumnsOf(record, i) ==
  LET key == record.items[i][1]
      value == record.items[i][2]
  IN IF IsNested(value)
       THEN [j \in 1..Len(value.items) |-> key \o "_" \o value.items[j][1]]
       ELSE <<key>>
Writes(record, i, column) ==
  \E j \in 1..Len(ColumnsOf(record, i)) : ColumnsOf(record, i)[j] = column
WrittenLater(record, i, column) ==
  \E n \in (i + 1)..Len(record.items) : Writes(record, n, column)
WrittenElsewhere(record, i, column) ==
  \E n \in 1..Len(record.items) : n /= i /\ Writes(record, n, column)

\* The statement of C10 with the value of a child given by ColumnValue(_).
NestedColumns(ColumnValue(_)) ==
  last.op = "flatten" =>
    \A r \in 1..Len(last.records) :
      LET record == last.records[r]
          out == last.flattened[r].items
      IN \A i \in 1..Len(record.items) :
           LET key == record.items[i][1]
               value == record.items[i][2]
           IN IsNested(value) =>
                /\ \A j \in 1..Len(value.items) :
                     LET column == key \o "_" \o value.items[j][1]
                     IN /\ HasKey(out, column)
                        /\ ~WrittenLater(record, i, column)
                             => DictGet(out, column) = ColumnValue(value.items[j][2])
                /\ ~WrittenElsewhere(record, i, key) => ~HasKey(out, key)

JsonText(v) == IF IsContainer(v) THEN Str(Dumps(v)) ELSE v
JsonTextOrNull(v) ==
  IF ~IsContainer(v) THEN v
  ELSE IF Truthy(v) THEN Str(Dumps(v)) ELSE Null

\* C10 as stated: the field of a non-empty nested object gives one column
\* {field}_{childKey} per child, holding the child when it is a scalar and
\* its JSON text when it is a container, empty or not; the field itself
\* gives no column.
C10_AsStated == NestedColumns(JsonText)

\* C10, amended: the field of a non-empty nested object gives one column
\* {field}_{childKey} per child, holding the child when it is a scalar, its
\* JSON text when it is a non-empty container and null when it is an empty
\* one; the field itself gives no column.  Where a later field of the
\* record writes the same column, the later value stands.
C10_NestedColumns == NestedColumns(JsonTextOrNull)

\* A nested object with a scalar child and an empty-container child has
\* been flattened into its two columns.
C10_Witness ==
  /\ last.op = "flatten" /\ Len(last.records) = 1
  /\ last.records[1] = Obj(<<<<"a", Obj(<<<<"b", Obj(<<>>)>>, <<"c", Str("x")>>>>)>>>>)
  /\ last.flattened[1] = Obj(<<<<"a_b", Null>>, <<"a_c", Str("x")>>>>)

\* The statement of C11 with the values a column may hold given by
\* Allowed(_).
FlatValues(Allowed(_)) ==
  last.op = "flatten" =>
    \A r \in 1..Len(last.flattened) :
      \A i \in 1..Len(last.flattened[r].items) :
        Allowed(last.flattened[r].items[i][2])

IsScalar(v) == ~IsContainer(v)
\* A scalar, or a container the else branch copies: an empty dict, an empty
\* list, or a list whose first element is no dict.
IsScalarOrCopied(v) ==
  \/ ~IsContainer(v)
  \/ IsDict(v) /\ ~Truthy(v)
  \/ IsList(v) /\ (~Truthy(v) \/ ~IsDict(v.elems[1]))

\* C11 as stated: after flattening, every value of every record is a
\* scalar; no column holds an object or a sequence.
C11_AsStated == FlatValues(IsScalar)

\* C11, amended: after flattening, every value of every record is a scalar
\* (JSON text included), an empty object, an empty sequence, or a sequence
\* whose first element is no object, these being copied as they are; no
\* column holds a non-empty object or a sequence that starts with an object.
C11_FlatValues == FlatValues(IsScalarOrCopied)

\* A record with a nested object and a list of numbers has been flattened:
\* the object's child is a column of its own, the list is copied.
C11_Witness ==
  /\ last.op = "flatten" /\ Len(last.records) = 1
  /\ last.records[1] = Obj(<<<<"a", Obj(<<<<"b", Lst(<<Num(1)>>)>>>>)>>,
                             <<"b", Lst(<<Num(1)>>)>>>>)
  /\ last.flattened[1] = Obj(<<<<"a_b", Str("[1]")>>, <<"b", Lst(<<Num(1)>>)>>>>)

\* C12: after an ingest of table T from the remote procedure S that
\* reports success, the _metadata row of T names S as its rpc_name, also
\* when S is not T.
C12_MetadataNamesRpc ==
  (last.op = "init_chat" /\ last.is_success
     /\ Database(last.db).meta[last.table].present) =>
    Database(last.db).meta[last.table].rpc_name = last.rpc

\* C13: after every ingest into T that reports success, the one _metadata
\* row of T is that of this ingest: it is there, and its row_count is the
\* number of records just ingested, not that of an earlier ingest.
C13_MetadataIsLatest ==
  (last.op = "init_chat" /\ last.is_success) =>
    /\ Database(last.db).meta[last.table].present
    /\ Database(last.db).meta[last.table].row_count = InputLength(LastArg)

\* C14: when an engine call of an ingest fails (the drop, the create, the
\* write of the rows or that of the metadata), create_table_from_response
\* returns False, and the table is then as it was before the call or
\* absent.
C14_EngineFailureReported ==
  (last.op = "ingest" /\ last.fail /= {}) =>
    /\ ~last.ret
    /\ \/ last.db.tables[last.table] = last.before.tables[last.table]
       \/ ~last.db.tables[last.table].present

\* The primary path of the translation fails: the post raises (no
\* connection, or the timeout), the status is an error, or the response is
\* malformed: its body is no JSON, or holds no text at
\* choices[0].message.content.
PrimaryFails(response) ==
  \/ response.kind \in {"raises", "unparsable"}
  \/ response.status >= 400
  \/ Content(response.body).raised

\* C15: whenever the primary path fails, _convert_to_sql returns the SQL
\* the fallback gives for the same question, table and schema.
C15_FailureFallsBack ==
  (last.op = "convert_to_sql" /\ PrimaryFails(last.response)) =>
    last.sql = SimpleSqlFallback(last.message, last.table, last.schema)

\* An error status came with a body that holds a statement, and the
\* fallback's statement for a "latest" question was returned.
C15_Witness ==
  /\ last.op = "convert_to_sql"
  /\ last.response.kind = "json" /\ last.response.status = 500
  /\ ~Content(last.response.body).raised
  /\ last.message = "the latest 5" /\ last.schema = <<"created_at", "id">>
  /\ last.sql = "SELECT * FROM " \o last.table \o " ORDER BY created_at DESC LIMIT 10"

HasKeyword(question, keywords) ==
  \E k \in keywords : Contains(Lower(question), k)
\* The first rule, in the order 1 to 4, with a keyword in the question.
RuleOf(question) ==
  IF HasKeyword(question, {"all", "show", "list"}) THEN 1
  ELSE IF HasKeyword(question, {"count", "how many"}) THEN 2
  ELSE IF HasKeyword(question, {"top", "latest", "recent"}) THEN 3
  ELSE 4

C18_AsStated ==
  (last.op = "fallback" /\ last.message = "show the latest 5"
     /\ last.table = "tickets" /\ last.schema = <<"id", "created_at">>) =>
    last.sql = "SELECT * FROM tickets ORDER BY id DESC LIMIT 10"

\* C18, amended: "show the latest 5" has the keyword "show" of rule 1 and
\* gives SELECT * FROM <table> LIMIT 100; a question with top, latest or
\* recent and no keyword of rules 1 and 2 is ordered descending by the
\* first column of the schema in its reported order and limited to 10.
C18_LatestByFirstColumn ==
  last.op = "fallback" =>
    /\ last.message = "show the latest 5"
         => last.sql = "SELECT * FROM " \o last.table \o " LIMIT 100"
    /\ RuleOf(last.message) = 3
         => last.sql = "SELECT * FROM " \o last.table \o " ORDER BY "
                         \o last.schema[1] \o " DESC LIMIT 10"

\* "the latest 5" on tickets with the columns id, created_at has been
\* translated to the statement ordered by id.
C18_Witness ==
  /\ last.op = "fallback" /\ last.message = "the latest 5"
  /\ last.table = "tickets" /\ last.schema = <<"id", "created_at">>
  /\ last.sql = "SELECT * FROM tickets ORDER BY id DESC LIMIT 10"

\* C16: whatever the completion service answers, an empty or a fence-only
\* content included, a chat on an existing table ends in a success or in
\* "Query execution failed", never in a result that says the question
\* could not be translated.
C16_TranslationNeverSurfaced ==
  (last.op = "chat" /\ last.table \in TableNames) =>
    last.message /= "Could not parse query"

\* The engine raises on a statement: it is no SQL, it names a relation or
\* a column the connection does not see, it deletes from a registered
\* view, the connection is closed, or the engine fails on its own.
EngineRaises(store, query, fails) ==
  LET sql == ParseSql(query)
      seen == Relation(store.db, store.inst, sql.table)
      stored == sql.table \in TableNames /\ store.db.tables[sql.table].present
  IN \/ fails \/ ~store.inst.open \/ sql.op = "invalid"
     \/ sql.op = "drop" /\ ~stored
     \/ sql.op = "delete" /\ (~stored \/ store.inst.views[sql.table].present)
     \/ sql.op \in {"select", "count"} /\ ~seen.present
     \/ sql.op = "select" /\ sql.order_by /= ""
          /\ \A c \in 1..Len(seen.cols) : seen.cols[c] /= sql.order_by

\* C19: query_table returns None exactly when the engine raises; otherwise
\* it returns the columns with one mapping over those columns for each row
\* of the result: no row for a SELECT over a table without rows, one row
\* with the count 0 for a COUNT(*) over it.
C19_NoneIffEngineRaises ==
  last.op = "query" =>
    LET sql == ParseSql(last.query)
        seen == Relation(last.store.db, last.store.inst, sql.table)
    IN /\ last.ret.none <=> EngineRaises(last.store, last.query, last.fails)
       /\ ~last.ret.none =>
            /\ \A i \in 1..Len(last.ret.data) :
                 /\ IsDict(last.ret.data[i])
                 /\ \A c \in 1..Len(last.ret.columns) :
                      HasKey(last.ret.data[i].items, last.ret.columns[c])
                 /\ Len(last.ret.data[i].items) = Len(last.ret.columns)
            /\ sql.op = "select" =>
                 /\ last.ret.columns = seen.cols
                 /\ Len(last.ret.data) = Min({Len(seen.rows), sql.limit})
            /\ sql.op = "count" =>
                 last.ret.data = <<Obj(<<<<"total", Num(Len(seen.rows))>>>>)>>

\* A COUNT(*) over a table without rows has returned one row.
C19_Witness ==
  /\ last.op = "query" /\ last.query = "SELECT COUNT(*) AS total FROM t1"
  /\ last.store.db.tables["t1"].present /\ last.store.db.tables["t1"].rows = <<>>
  /\ ~last.ret.none
  /\ last.ret.data = <<Obj(<<<<"total", Num(0)>>>>)>>

\* C20: a chat on a table name that no ingest of the tenant has ever
\* created (the ingests here create the names of TableNames only) returns
\* is_success = false with the message that the table was not found.
C20_NeverIngestedNotFound ==
  (last.op = "chat" /\ last.table \notin TableNames) =>
    /\ ~last.is_success
    /\ last.message = "Table not found"

\* C21: every failure of an ingestion (the RPC raising or answering an
\* error status, a body that does not parse, a call of the engine raising)
\* comes back from initialize_from_api as a result with is_success = false
\* and a message.
C21_FailuresReturned ==
  (last.op = "initialize"
     /\ (last.resp.kind /= "json" \/ last.resp.status >= 400 \/ last.fail /= {})) =>
    /\ ~last.is_success
    /\ last.message /= ""

\* C22: a construction that fails at any step, the creation of _metadata
\* included, makes get_db raise and leaves the registry without an entry
\* for the tenant: a get_db that returns a store returns one whose
\* database holds _metadata.
C22_ConstructionFailurePropagates ==
  last.op = "get_db" =>
    IF last.raised THEN ~HasKey(userDbs, last.user)
    ELSE Database(last.db).hasMeta

\* C23: a chat on T that was suspended while an ingestion into T
\* completed sees one version of the table: when its query is executed,
\* the table has the schema that the question was translated with (and so
\* is not absent).
C23_QuerySeesOneVersion ==
  [][\A r \in Slots :
       (/\ reqs[r].pc = "await_llm" /\ reqs'[r].pc = "idle"
        /\ last.op = "init_chat" /\ last.table = reqs[r].table
        /\ instances[reqs[r].db].open) =>
         reqs[r].schema = GetTableSchema(Database(reqs[r].db), instances[reqs[r].db],
                                         reqs[r].table)]_vars

\* No close_db and no close_all_dbs has closed a store so far.
NothingClosed ==
  phase = "running" /\ \A i \in 1..Len(instances) : instances[i].closes = 0

\* C24: as long as nothing has been closed, the registry holds the store
\* that the first get_db of a tenant constructed and no other was made for
\* the tenant: every get_db returns the tenant's one store, and the stores
\* of distinct tenants are distinct.
C24_LazyAndNeverEvicted ==
  NothingClosed =>
    /\ \A i, j \in 1..Len(instances) :
         instances[i].user_id = instances[j].user_id => i = j
    /\ \A i \in 1..Len(instances) :
         /\ HasKey(userDbs, instances[i].user_id)
         /\ DictGet(userDbs, instances[i].user_id) = i
    /\ \A k, l \in 1..Len(userDbs) :
         userDbs[k][1] /= userDbs[l][1] => userDbs[k][2] /= userDbs[l][2]
    /\ (last.op \in {"get_db", "get_chat_service"} /\ ~last.raised) =>
         /\ instances[last.db].user_id = last.user
         /\ DictGet(userDbs, last.user) = last.db

\* A get_db has returned the first tenant's store while the registry holds
\* a later one of another tenant: the call constructed nothing.
C24_Witness ==
  /\ NothingClosed
  /\ Len(instances) = 2 /\ Len(userDbs) = 2
  /\ last.op = "get_db" /\ ~last.raised /\ last.db = 1
  /\ instances[2].user_id /= last.user

\* C25: the names that GET /tables reports for a tenant are names of
\* tables that ingestions created (the ingestions here create the names of
\* TableNames only), each one present in the tenant's store.
C25_ListsOnlyIngested ==
  (last.op = "get_db" /\ ~last.raised) =>
    LET tables == ListTables(Database(last.db), instances[last.db])
    IN \A k \in 1..Len(tables) :
         /\ tables[k] \in TableNames
         /\ Database(last.db).tables[tables[k]].present

\* C26: the store that get_chat_service hands to a request is open and is
\* the store the registry holds for the tenant, also after a close_db.
C26_ServiceUsesLiveStore ==
  (last.op = "get_chat_service" /\ ~last.raised) =>
    /\ instances[last.db].open
    /\ HasKey(userDbs, last.user)
    /\ DictGet(userDbs, last.user) = last.db

\* A payload that is to be rejected for what it is: an empty sequence, an
\* empty object, a wrapper whose "data" is an empty sequence, or a value
\* that is neither a sequence nor an object.
RejectedPayload(data) ==
  \/ data = Lst(<<>>)
  \/ data = Obj(<<>>)
  \/ IsDict(data) /\ HasKey(data.items, "data") /\ DictGet(data.items, "data") = Lst(<<>>)
  \/ ~IsList(data) /\ ~IsDict(data)

\* C27: an ingestion of such a payload, the engine not failing, returns
\* False and leaves the store as it was: the table of the target name and
\* its metadata row included.
C27_RejectionLeavesStore ==
  (last.op = "ingest" /\ last.fail = {} /\ RejectedPayload(last.data)) =>
    /\ ~last.ret
    /\ last.db = last.before

\* C28: the stores of two different user ids open different databases, in
\* memory mode and in file mode.
C28_DistinctPaths ==
  \A i, j \in 1..Len(instances) :
    instances[i].user_id /= instances[j].user_id =>
      instances[i].db_path /= instances[j].db_path

\* C29: the records that initialize_from_api ingests from a response body
\* are those that the normalization of the body gives when applied once
\* (a list as it is, the "data" list of a wrapper, any other object as one
\* record): the call succeeds and leaves the store as
\* create_table_from_response does on the body itself.
C29_NormalizedOnce ==
  (last.op = "initialize" /\ last.fail = {}
     /\ last.resp.kind = "json" /\ last.resp.status < 400) =>
    LET once == CreateTableFromResponse(last.before, last.views, last.table,
                                        last.resp.body, {})
    IN /\ last.is_success = once.ret
       /\ last.db = once.db

\* C30: a chat changes nothing in the store: the step that executes its
\* statement and returns leaves the tables, their rows and the metadata
\* rows of every database as they were.
C30_ChatDoesNotMutate ==
  [][\A r \in Slots :
       (reqs[r].pc = "await_llm" /\ reqs'[r].pc = "idle") => databases' = databases]_vars

====
